---- MODULE Spec2Model ----
(***************************************************************************)
(* Eudoros, a logging facade for Node.js: a state-machine model of the     *)
(* log-dispatch pipeline.  The repository holds two snapshots of the one   *)
(* module (src/src/index.ts and src/unnamed/part_001); `version` selects   *)
(* the snapshot a logger instance was built from, and every operator below *)
(* follows the snapshot-specific code where the two differ.                *)
(*                                                                         *)
(* JavaScript values are modelled as string tokens ("true", "false",       *)
(* "undefined", "null", ...), rendered strings as sequences of string      *)
(* pieces (concatenation is \o).  An operator that models a function which *)
(* may throw returns a record [fault, value, out]: the fault it throws     *)
(* ("none" when it returns), its return value, and the console events it   *)
(* emitted before returning or throwing.                                   *)
(***************************************************************************)
EXTENDS Naturals, Sequences, FiniteSets

VARIABLES
    host,        \* the caller's side: the configuration it constructed the
                 \* logger from, its own levels array and options object as
                 \* they are now, and the edits it made to them since
    version,     \* which snapshot of the module the instance runs
    options,     \* Eudoros.#options
    levels,      \* Eudoros.#levels
    methods,     \* the generated entry points: <<name, index into levels>>
    calls,       \* history: one record per call issued by the host
    console,     \* every event sent to the console sink, in order
    tickQueue,   \* process.nextTick queue of deferred send() closures
    microtasks,  \* pending promise reactions (.catch handlers), FIFO
    appends,     \* every fs.appendFile request, in order, with its status
    escaped      \* every fault that left the logger: thrown to the caller,
                 \* an uncaught exception of a callback, an unhandled rejection

vars == <<host, version, options, levels, methods, calls, console, tickQueue,
          microtasks, appends, escaped>>

----------------------------------------------------------------------------
(* Bounds of the model *)

\* number of calls the host issues
MaxCalls == 2

\* depth at which the engine's call stack overflows (RangeError)
StackLimit == 3

\* number of calls the host issues in the wide specification
MaxWide == 1

\* number of edits the host makes to the objects it configured the logger with
MaxEdits == 1

----------------------------------------------------------------------------
(* JavaScript values *)

Undef == "undefined"

\* ToBoolean of a value token
Truthy(v) == v \notin {"undefined", "null", "false", "", "0"}

\* an absent array-valued field
NoArray == <<Undef>>

IsArray(a) == a # NoArray

Versions == {"index", "part1"}

\* Date strategies a caller can configure: the built-in default name, a name
\* that is no method of Date, and three caller-supplied functions: one that
\* always throws, one that throws when the pipeline invokes it and returns
\* when the error reporter invokes it right after, and one that returns while
\* the logging call is on the stack and throws when invoked from a callback
DateStrategies ==
    {"toISOString", "noSuchMethod", "fnThrows", "fnThrowsFirst", "fnThrowsLater"}

\* typeof format === 'function'
isFunction(format) == format \in {"fnThrows", "fnThrowsFirst", "fnThrowsLater"}

\* The payloads the host passes: a string followed by an Error, and a single
\* object with a circular reference (JSON.stringify throws on it)
Payloads == { <<"msg", "err">>, <<"circ">> }

Domains == {"Auth"}

\* the level labels the host passes to withDomain
Labels == {"info", "critical", "nonexistent"}

----------------------------------------------------------------------------
(* Configuration *)

\* Eudoros.#default_method
default_method == "log"

NoTrace == [present |-> FALSE, groupLabel |-> Undef, groupPrefix |-> Undef,
            format |-> NoArray]

\* Eudoros.#default_levels (the prefix is "[>]" in index.ts, "[-]" in part_001)
default_levels(v) ==
    << [label |-> "log", methodName |-> Undef,
        prefix |-> IF v = "index" THEN "[>]" ELSE "[-]",
        format |-> NoArray, logToFile |-> Undef, trace |-> NoTrace,
        consoleMethodName |-> Undef, consoleTimestamps |-> Undef,
        formatToString |-> Undef] >>

\* Eudoros.#default_options
default_options ==
    [synchronous |-> "false", outputDirectory |-> "./logs",
     outputFileExtension |-> "log", formatArgs |-> "true",
     formatDate |-> "toISOString", consoleTimestamps |-> "true"]

OptionFields == DOMAIN default_options

\* the field initializer `#options = {}`: every field reads undefined
EmptyOptions == [f \in OptionFields |-> Undef]

\* {...this.#default_options, ...config.options}: a field the caller gives
\* wins, a field the caller omits keeps its default
SpreadOptions(given) ==
    [f \in OptionFields |-> IF given[f] = Undef THEN default_options[f] ELSE given[f]]

\* The levels the caller registers: a plain level that logs to the shared
\* file, a trace level that logs to its own file, and a level with a custom
\* renderer that throws, an invalid console method and no file logging
CallerLevels ==
    << [label |-> "info", methodName |-> Undef, prefix |-> "[i]",
        format |-> NoArray, logToFile |-> "true", trace |-> NoTrace,
        consoleMethodName |-> Undef, consoleTimestamps |-> Undef,
        formatToString |-> Undef],
       [label |-> "critical", methodName |-> Undef, prefix |-> "[x]",
        format |-> <<"<", ">">>, logToFile |-> "critical",
        trace |-> [present |-> TRUE, groupLabel |-> "Critical error.",
                   groupPrefix |-> "[!]", format |-> NoArray],
        consoleMethodName |-> "error", consoleTimestamps |-> Undef,
        formatToString |-> Undef],
       [label |-> "Audit", methodName |-> Undef, prefix |-> Undef,
        format |-> NoArray, logToFile |-> Undef, trace |-> NoTrace,
        consoleMethodName |-> "table", consoleTimestamps |-> Undef,
        formatToString |-> "throws"] >>

\* The options objects a caller passes (Undef: the field is omitted)
CallerOptions ==
    [synchronous : {"true", "false"},
     outputDirectory : {Undef, "false"},
     outputFileExtension : {Undef},
     formatArgs : {Undef},
     formatDate : {Undef, "noSuchMethod"},
     consoleTimestamps : {Undef, "false"}]
    \cup
    [synchronous : {"true", "false"},
     outputDirectory : {Undef},
     outputFileExtension : {Undef},
     formatArgs : {Undef},
     formatDate : {"fnThrows", "fnThrowsFirst", "fnThrowsLater"},
     consoleTimestamps : {Undef}]

\* The configurations a caller constructs a logger from: levels with an
\* options object, or levels alone
\* (given: a configuration object is passed at all; via: new Eudoros(config)
\* or EudorosBuilder.init())
Configs ==
    [given : {TRUE}, via : {"constructor"},
     hasLevels : {TRUE}, levels : {CallerLevels},
     hasOptions : {TRUE}, options : CallerOptions]
    \cup
    [given : {TRUE}, via : {"constructor"},
     hasLevels : {TRUE}, levels : {CallerLevels},
     hasOptions : {FALSE}, options : {EmptyOptions}]

\* The wider inputs: three more levels (an invalid console method on a label
\* that is itself a console method; a trace level with a custom renderer that
\* returns, file logging and a label that is no console method; a second level
\* labelled "info": a trace level that sets neither a group prefix nor a group
\* label and switches its console timestamps off) ...
WideLevels ==
    CallerLevels \o
    << [label |-> "warn", methodName |-> Undef, prefix |-> Undef,
        format |-> NoArray, logToFile |-> Undef, trace |-> NoTrace,
        consoleMethodName |-> "table", consoleTimestamps |-> Undef,
        formatToString |-> Undef],
       [label |-> "Report", methodName |-> Undef, prefix |-> "[r]",
        format |-> NoArray, logToFile |-> "true",
        trace |-> [present |-> TRUE, groupLabel |-> "Report.",
                   groupPrefix |-> "[R]", format |-> NoArray],
        consoleMethodName |-> Undef, consoleTimestamps |-> Undef,
        formatToString |-> "fn"],
       [label |-> "info", methodName |-> Undef, prefix |-> "[2]",
        format |-> NoArray, logToFile |-> Undef,
        trace |-> [present |-> TRUE, groupLabel |-> Undef,
                   groupPrefix |-> Undef, format |-> NoArray],
        consoleMethodName |-> Undef, consoleTimestamps |-> "false",
        formatToString |-> Undef] >>

\* ... the level the caller adds to its array after construction ...
LateLevel ==
    [label |-> "late", methodName |-> Undef, prefix |-> Undef,
     format |-> NoArray, logToFile |-> Undef, trace |-> NoTrace,
     consoleMethodName |-> Undef, consoleTimestamps |-> Undef,
     formatToString |-> Undef]

\* ... payloads of every length from none to three values, with a falsy last
\* value and with a number, an array and a plain object ...
WidePayloads ==
    { <<>>, <<"msg">>, <<"msg", "err">>, <<"msg", "null">>,
      <<"42", "list", "obj">> }

WideLabels == {"Report", "late", "info", "Audit", "audit"}

\* ... options that set the mode and switch argument formatting off ...
WideOptions ==
    [synchronous : {"true", "false"},
     outputDirectory : {Undef},
     outputFileExtension : {Undef},
     formatArgs : {Undef, "false"},
     formatDate : {Undef},
     consoleTimestamps : {Undef}]

\* ... and every way of constructing a logger: new Eudoros(config) with
\* levels and options, with levels alone, with an empty configuration, with
\* no configuration at all, and through EudorosBuilder
WideConfigs ==
    [given : {TRUE}, via : {"constructor"},
     hasLevels : {TRUE}, levels : {WideLevels},
     hasOptions : {TRUE}, options : WideOptions]
    \cup
    [given : {TRUE}, via : {"constructor"},
     hasLevels : {TRUE}, levels : {WideLevels},
     hasOptions : {FALSE}, options : {EmptyOptions}]
    \cup
    [given : {TRUE, FALSE}, via : {"constructor"},
     hasLevels : {FALSE}, levels : {<<>>},
     hasOptions : {FALSE}, options : {EmptyOptions}]
    \cup
    [given : {TRUE}, via : {"builder"},
     hasLevels : {TRUE}, levels : {WideLevels},
     hasOptions : {TRUE},
     options : {[EmptyOptions EXCEPT !.synchronous = "true"]}]

\* String.prototype.toLowerCase on the labels and method names in use
toLowerCase(s) ==
    CASE s = "Audit" -> "audit"
      [] s = "Report" -> "report"
      [] OTHER -> s

\* constructor: the options the instance keeps
ctorOptions(v, config) ==
    IF ~config.given THEN EmptyOptions
    ELSE IF config.hasOptions
    THEN SpreadOptions(config.options)
    ELSE IF v = "index" THEN EmptyOptions ELSE default_options

\* constructor: the levels the instance keeps
ctorLevels(v, config) ==
    IF ~config.given THEN <<>>
    ELSE IF config.hasLevels THEN config.levels ELSE default_levels(v)

\* whether this.#levels is the very array the caller holds: the constructor
\* keeps config.levels itself, EudorosBuilder.init() hands over a copy
levelsAliased(config) ==
    config.given /\ config.hasLevels /\ config.via = "constructor"

\* variant: the constructor keeping config.options itself
optionsAliased_kept(config) == config.given /\ config.hasOptions

\* whether this.#options is the very object the caller holds: never, the
\* constructor spreads config.options into a fresh object
optionsAliased(config) == FALSE

\* #initLevels: the name of the entry point generated for a level
methodNameOf(level) ==
    IF Truthy(level.methodName)
    THEN toLowerCase(level.methodName)
    ELSE toLowerCase(level.label)

\* variant: an #initLevels that keeps the first entry point of a name
initLevels_first(lvls, opts) ==
    LET names == {methodNameOf(lvls[i]) : i \in DOMAIN lvls}
        first(n) == CHOOSE i \in DOMAIN lvls :
                       /\ methodNameOf(lvls[i]) = n
                       /\ \A j \in DOMAIN lvls :
                             methodNameOf(lvls[j]) = n => i <= j
    IN  [n \in names |-> [level |-> first(n),
                          async |-> (opts.synchronous = "false")]]

\* #initLevels: forEach assigns this[methodName] level by level, so a later
\* level with the same name replaces an earlier one.  Each entry point closes
\* over its level and is an async function iff options.synchronous === false.
initLevels(lvls, opts) ==
    LET names == {methodNameOf(lvls[i]) : i \in DOMAIN lvls}
        last(n) == CHOOSE i \in DOMAIN lvls :
                      /\ methodNameOf(lvls[i]) = n
                      /\ \A j \in DOMAIN lvls :
                            methodNameOf(lvls[j]) = n => j <= i
    IN  [n \in names |-> [level |-> last(n),
                          async |-> (opts.synchronous = "false")]]

\* constructor: the entry points #initLevels generates; without a
\* configuration object the constructor body is skipped and none is generated
ctorMethods(v, config) ==
    IF ~config.given THEN <<>>
    ELSE initLevels(ctorLevels(v, config), ctorOptions(v, config))

----------------------------------------------------------------------------
(* Results of functions that may throw, and console events *)

Return(v, out) == [fault |-> "none", value |-> v, out |-> out]

Throw(f, out) == [fault |-> f, value |-> Undef, out |-> out]

\* const r = <expression>; <rest of the function, which reads r>
Bind(r, Rest(_)) == Rest(r)

\* r = <call>: when the call throws, the throw leaves the enclosing function
\* with the events emitted so far (before); otherwise the function continues
Try(before, r, Rest(_)) ==
    IF r.fault # "none" THEN Throw(r.fault, before \o r.out) ELSE Rest(r)

\* One call of a console method.  src tells the internal error reporter
\* ("report") from the dispatch of a call ("send"); call is the call of the
\* host during whose pipeline the event is emitted.
Event(op, text, src, cx) ==
    [op |-> op, text |-> text, src |-> src, call |-> cx.call, at |-> cx.at]

\* The context of one step: the call it works for and where it runs ("inline":
\* on the caller's stack, "tick": a process.nextTick callback, "microtask": a
\* promise reaction, "fs": an fs.appendFile callback)
Context(c, at) == [call |-> c, at |-> at]

----------------------------------------------------------------------------
(* Date formatter and internal error reporter *)

\* whether the configured strategy throws inside formatDate's try block:
\* date[format] is not a function (TypeError), or the caller's function throws
strategyThrows(format, cx, depth) ==
    \/ format = "noSuchMethod"
    \/ format = "fnThrows"
    \/ format = "fnThrowsFirst" /\ depth = 0
    \/ format = "fnThrowsLater" /\ cx.at # "inline"

\* the string a strategy that does not throw returns for a date
strategyResult(format, date) ==
    CASE isFunction(format) /\ date = "now"  -> "fn(now)"
      [] isFunction(format) /\ date = "date" -> "fn(date)"
      [] ~isFunction(format) /\ date = "now" -> "ISO(now)"
      [] OTHER                               -> "ISO(date)"

RECURSIVE formatDate(_, _, _), internalErrorLog(_, _, _, _)

\* #formatDate.  depth counts the frames of the formatDate/internalErrorLog
\* recursion on the stack; past StackLimit the engine throws RangeError.
\*   part_001: format = options.formatDate || default; try the strategy; on a
\*     throw report and return the default strategy's result.
\*   index.ts: no strategy configured: report and return the Date itself;
\*     try the strategy; on a throw report and return undefined.
formatDate(date, cx, depth) ==
    IF depth > StackLimit THEN Throw("RangeError", <<>>)
    ELSE IF version = "part1"
    THEN Bind(IF Truthy(options.formatDate) THEN options.formatDate
              ELSE default_options.formatDate,
           LAMBDA format :
             IF ~strategyThrows(format, cx, depth)
             THEN Return(strategyResult(format, date), <<>>)
             ELSE Try(<<>>,
                      internalErrorLog(
                         <<"Cannot format date! Falling back to default format">>,
                         date, cx, depth + 1),
                      LAMBDA r :
                         Return(strategyResult(default_options.formatDate, date), r.out)))
    ELSE IF Truthy(options.formatDate)
         THEN IF ~strategyThrows(options.formatDate, cx, depth)
              THEN Return(strategyResult(options.formatDate, date), <<>>)
              ELSE Try(<<>>,
                       internalErrorLog(<<"Error during date formatting!">>,
                                        "TypeError", cx, depth + 1),
                       LAMBDA r : Return(Undef, r.out))
         ELSE Try(<<>>,
                  internalErrorLog(<<"Cannot format date, no config defined!">>,
                                   date, cx, depth + 1),
                  LAMBDA r : Return(date, r.out))

\* #internalErrorLog: console.group(marker, formatDate(new Date()), banner),
\* console.error(msg), console.trace(err) when err is truthy, console.groupEnd().
\* The arguments of console.group are evaluated first: when formatDate throws,
\* nothing has been written and the throw leaves the reporter.
internalErrorLog(msg, err, cx, depth) ==
    IF depth > StackLimit THEN Throw("RangeError", <<>>)
    ELSE Try(<<>>, formatDate("now", cx, depth + 1),
             LAMBDA d :
               Return(Undef,
                 d.out
                 \o << Event("group", <<"[!]", d.value, "Eudoros caught an exception.">>,
                             "report", cx),
                       Event("error", <<"[>]">> \o msg, "report", cx) >>
                 \o (IF Truthy(err)
                     THEN << Event("trace", <<err>>, "report", cx) >>
                     ELSE <<>>)
                 \o << Event("groupEnd", <<>>, "report", cx) >>))

----------------------------------------------------------------------------
(* Payload renderer *)

\* a string as a piece of a rendered line (the empty string adds nothing)
Piece(str) == IF str = "" THEN <<>> ELSE <<str>>

RECURSIVE Join(_, _)
\* Array.prototype.join of rendered parts
Join(parts, sep) ==
    IF Len(parts) = 0 THEN <<>>
    ELSE IF Len(parts) = 1 THEN parts[1]
    ELSE parts[1] \o <<sep>> \o Join(Tail(parts), sep)

\* typeof / instanceof classification used by the map callback of #formatPayload
kindOf(arg) ==
    CASE arg \in {"42", "5"}           -> "number"
      [] arg = "list"                  -> "array"
      [] arg = "date"                  -> "Date"
      [] arg = "err"                   -> "Error"
      [] arg \in {"obj", "circ", "null"} -> "object"
      [] OTHER                         -> "primitive"

\* JSON.stringify of one value ("throws": a circular structure is a TypeError).
\* An Error has no enumerable own property, undefined inside an array is null.
jsonStringify(arg) ==
    CASE arg = "circ"   -> "throws"
      [] arg = "obj"    -> "{\"a\":1}"
      [] arg = "err"    -> "{}"
      [] arg = "list"   -> "[1,2,3]"
      [] arg = "date"   -> "\"ISO(date)\""
      [] arg = "msg"    -> "\"msg\""
      [] arg = "x"      -> "\"x\""
      [] arg = Undef    -> "null"
      [] OTHER          -> arg

\* String(value), as a template literal or Array.prototype.join applies it
toString(arg) ==
    CASE arg = "err"              -> "Error: test"
      [] arg \in {"obj", "circ"}  -> "[object Object]"
      [] arg = "list"             -> "1,2,3"
      [] arg = "date"             -> "Date(date)"
      [] OTHER                    -> arg

\* the string Array.prototype.join uses for an element: null and undefined
\* become the empty string
joinString(arg) == IF arg \in {"null", Undef} THEN "" ELSE toString(arg)

\* variant: the colour band applied whatever formatArgs says
Band_always(formatArgs, code, body) == <<code, body, "ESC[0m">>

\* a value inside its colour band when formatArgs is on, bare otherwise
Band(formatArgs, code, body) ==
    IF formatArgs THEN <<code, body, "ESC[0m">> ELSE <<body>>

\* the map callback of #formatPayload for one payload value
formatArg(arg, formatArgs, cx) ==
    CASE kindOf(arg) = "number" -> Return(Band(formatArgs, "ESC[33m", arg), <<>>)
      [] kindOf(arg) = "array"  -> Return(Band(formatArgs, "ESC[32m", "1, 2, 3"), <<>>)
      [] kindOf(arg) = "Date"   ->
            Try(<<>>, formatDate(arg, cx, 0),
                LAMBDA d : Return(Band(formatArgs, "ESC[35m", d.value), d.out))
      [] kindOf(arg) = "Error"  -> Return(<<toString(arg)>>, <<>>)
      [] kindOf(arg) = "object" ->
            IF jsonStringify(arg) = "throws" THEN Throw("TypeError", <<>>)
            ELSE Return(Band(formatArgs, "ESC[36m", jsonStringify(arg)), <<>>)
      [] OTHER -> Return(<<arg>>, <<>>)

RECURSIVE formatArgsList(_, _, _)
\* payload.filter(arg => arg !== undefined).map(...): the values in order; the
\* first throw ends the map
formatArgsList(args, formatArgs, cx) ==
    IF Len(args) = 0 THEN Return(<<>>, <<>>)
    ELSE IF Head(args) = Undef THEN formatArgsList(Tail(args), formatArgs, cx)
    ELSE Try(<<>>, formatArg(Head(args), formatArgs, cx),
             LAMBDA h :
               Try(h.out, formatArgsList(Tail(args), formatArgs, cx),
                   LAMBDA t : Return(<<h.value>> \o t.value, h.out \o t.out)))

\* the (level.format && Array.isArray(level.format) && length > 0) ? .. : ['','']
levelFormat(level) ==
    IF IsArray(level.format) /\ Len(level.format) > 0 THEN level.format ELSE <<"", "">>

\* format[i] || '' for an index that may lie past the end of the array
formatAt(format, i) == IF i <= Len(format) THEN format[i] ELSE ""

\* effective timestamp visibility of a call
withTimestamp(level) ==
    IF version = "part1"
    THEN IF level.consoleTimestamps # Undef
         THEN Truthy(level.consoleTimestamps)
         ELSE Truthy(options.consoleTimestamps)
    ELSE options.consoleTimestamps # "false"

\* variant: a pop that also takes the only value of a payload
popTrace_always(level, payload) ==
    IF level.trace.present /\ Len(payload) > 0
    THEN SubSeq(payload, 1, Len(payload) - 1)
    ELSE payload

\* the payload after the `if (level.trace && payload.length > 1) payload.pop()`
\* of #formatPayload.  payload is #formatPayload's own rest-parameter array
\* (the caller spreads its args), so the pop never reaches the caller's args.
popTrace(level, payload) ==
    IF level.trace.present /\ Len(payload) > 1
    THEN SubSeq(payload, 1, Len(payload) - 1)
    ELSE payload

\* the timestamp part of a line: `${format[0]}${formatDate(new Date())}${format[1]} `
timestampPart(format, show, cx) ==
    IF ~show THEN Return(<<>>, <<>>)
    ELSE Try(<<>>, formatDate("now", cx, 0),
             LAMBDA d :
               Return(Piece(format[1]) \o <<d.value>> \o Piece(format[2]) \o <<" ">>,
                      d.out))

\* the domain tag of a line: `${format[0]}[${domain}]${format[1]} `
domainPart(format, domain) ==
    IF Truthy(domain)
    THEN Piece(format[1]) \o <<"[", domain, "]">> \o Piece(format[2]) \o <<" ">>
    ELSE <<>>

\* the body of #formatPayload: the custom renderer's string, or (when it
\* throws) the report and the untouched array, or the formatted values joined
payloadBody(level, args, cx) ==
    IF Truthy(level.formatToString)
    THEN IF level.formatToString = "throws"
         THEN Try(<<>>,
                  internalErrorLog(
                     <<"Error in provided formatToString() function on ",
                       level.label, "!">>, "Error: formatToString", cx, 0),
                  LAMBDA r :
                     Return(Join([i \in DOMAIN args |-> Piece(joinString(args[i]))], ","),
                            r.out))
         ELSE Return(<<"formatToString(">>
                     \o Join([i \in DOMAIN args |-> <<toString(args[i])>>], ",")
                     \o <<")">>, <<>>)
    ELSE Try(<<>>,
             formatArgsList(popTrace(level, args), Truthy(options.formatArgs), cx),
             LAMBDA m : Return(Join(m.value, " / "), m.out))

\* level.prefix ? level.prefix + " " : ''
linePrefix(level) == IF Truthy(level.prefix) THEN <<level.prefix, " ">> ELSE <<>>

\* #formatPayload: the console line of a call
formatPayload(level, domain, args, cx) ==
    Try(<<>>, timestampPart(levelFormat(level), withTimestamp(level), cx),
        LAMBDA ts :
          Try(ts.out, payloadBody(level, args, cx),
              LAMBDA body :
                Return(
                  IF level.trace.present
                  THEN linePrefix(level) \o body.value
                  ELSE linePrefix(level) \o ts.value
                         \o domainPart(levelFormat(level), domain)
                         \o Piece(formatAt(levelFormat(level), 3)) \o body.value
                         \o Piece(formatAt(levelFormat(level), 4)),
                  ts.out \o body.out)))

----------------------------------------------------------------------------
(* Group renderer *)

\* the group prefix of #formatGroup.  part_001: groupPrefix + " " || '' is
\* never the empty string, an absent prefix reads "undefined "
groupPrefix(level) ==
    IF version = "part1"
    THEN <<level.trace.groupPrefix, " ">>
    ELSE IF Truthy(level.trace.groupPrefix)
         THEN <<level.trace.groupPrefix, " ">> ELSE <<>>

\* the decoration pair of #formatGroup (it tests Array.isArray(level.format))
groupFormat(level) ==
    IF /\ IsArray(level.trace.format)
       /\ IsArray(level.format)
       /\ Len(level.trace.format) > 0
    THEN level.trace.format ELSE <<"", "">>

\* #formatGroup: the header passed to console.group for a trace level
formatGroup(level, domain, cx) ==
    IF ~level.trace.present
    THEN Try(<<>>,
             internalErrorLog(<<"Cannot format trace on ", level.label,
                                ", no trace config defined!">>, Undef, cx, 0),
             LAMBDA r : Return(<<"<Format group error!>">>, r.out))
    ELSE Try(<<>>, timestampPart(groupFormat(level), withTimestamp(level), cx),
             LAMBDA ts :
               Return(groupPrefix(level) \o ts.value
                        \o domainPart(groupFormat(level), domain)
                        \o Piece(IF Truthy(level.trace.groupLabel)
                                 THEN level.trace.groupLabel ELSE ""),
                      ts.out))

----------------------------------------------------------------------------
(* File record builder *)

\* typeof level.logToFile === "string"
isString(v) == v \notin {"true", "false", Undef, "null"}

\* the stem of the log file's name
fileName(level) ==
    IF isString(level.logToFile)
    THEN <<level.label, "-log-", "YYYY-MM-DD">>
    ELSE <<"log-", "YYYY-MM-DD">>

\* the domain #handleLog passes to #logToFile: index.ts passes null
fileDomain(domain) == IF version = "part1" THEN domain ELSE "null"

\* JSON.stringify throws on a payload that holds a circular structure
stringifyThrows(args) == \E i \in DOMAIN args : jsonStringify(args[i]) = "throws"

\* JSON.stringify({...lineHead, args}): a key whose value is undefined is
\* left out, each element of args is encoded by jsonStringify
stringifyLine(head, args) ==
         [keys |-> SelectSeq(<<"timestamp", "level", "domain">>,
                             LAMBDA k : head[k] # Undef) \o <<"args">>,
          timestamp |-> head.timestamp,
          level |-> head.level,
          domain |-> head.domain,
          args |-> [i \in DOMAIN args |-> jsonStringify(args[i])],
          eol |-> "\r\n"]

\* the lineHead of #logToFile
lineHead(timestamp, level, domain) ==
    [timestamp |-> timestamp, level |-> level.label,
     domain |-> IF Truthy(domain) THEN domain ELSE Undef]

\* #logToFile: the record, its line and the fs.appendFile request.  value is
\* the sequence of requests made (none when the directory check fails).
logToFile(level, domain, args, cx) ==
    IF ~Truthy(options.outputDirectory)
    THEN Try(<<>>,
             internalErrorLog(
                <<"Cannot log to file! Configuration error, failed to load defaults.">>,
                Undef, cx, 0),
             LAMBDA r : Return(<<>>, r.out))
    ELSE Try(<<>>, formatDate("now", cx, 0),
             LAMBDA d :
               IF stringifyThrows(args) THEN Throw("TypeError", d.out)
               ELSE Return(
                      << [call |-> cx.call,
                          path |-> <<options.outputDirectory, "/">>
                                     \o fileName(level)
                                     \o <<".", options.outputFileExtension>>,
                          head |-> lineHead(d.value, level, domain),
                          args |-> args,
                          line |-> stringifyLine(lineHead(d.value, level, domain), args),
                          status |-> "requested"] >>,
                      d.out))

----------------------------------------------------------------------------
(* Dispatch engine *)

\* Eudoros.isValidMethod
isValidMethod(consoleMethod) ==
    consoleMethod \in {"log", "info", "error", "warn", "debug"}

\* variant: the resolution without its middle step (the level's label)
consoleMethodOf_noLabel(level) ==
    IF Truthy(level.consoleMethodName) /\ isValidMethod(level.consoleMethodName)
    THEN level.consoleMethodName
    ELSE default_method

\* the console method #handleLog resolves for a level
consoleMethodOf(level) ==
    IF Truthy(level.consoleMethodName) /\ isValidMethod(level.consoleMethodName)
    THEN level.consoleMethodName
    ELSE IF isValidMethod(level.label) THEN level.label
    ELSE default_method

\* args[args.length - 1] of #handleLog's own args
lastArg(args) == IF Len(args) = 0 THEN Undef ELSE args[Len(args)]

\* variant: send without the test of trace before console.trace
send_alwaysTrace(cl, cx) ==
    IF levels[cl.level].trace.present
    THEN Try(<<>>, formatGroup(levels[cl.level], cl.domain, cx),
             LAMBDA g :
               Return(Undef,
                 g.out
                 \o << Event("group", g.value, "send", cx),
                       Event(cl.consoleMethod, cl.message, "send", cx),
                       Event("trace", <<cl.trace>>, "send", cx),
                       Event("groupEnd", <<>>, "send", cx) >>))
    ELSE Return(Undef, << Event(cl.consoleMethod, cl.message, "send", cx) >>)

\* variant: send opening the group before the header is rendered, so that
\* what #formatGroup reports lands inside the group
send_headerInside(cl, cx) ==
    IF levels[cl.level].trace.present
    THEN Try(<<>>, formatGroup(levels[cl.level], cl.domain, cx),
             LAMBDA g :
               Return(Undef,
                 << Event("group", g.value, "send", cx) >>
                 \o g.out
                 \o << Event(cl.consoleMethod, cl.message, "send", cx) >>
                 \o (IF Truthy(cl.trace)
                     THEN << Event("trace", <<cl.trace>>, "send", cx) >>
                     ELSE <<>>)
                 \o << Event("groupEnd", <<>>, "send", cx) >>))
    ELSE Return(Undef, << Event(cl.consoleMethod, cl.message, "send", cx) >>)

\* the closure `send` of #handleLog.  cl holds what it closes over: the level,
\* the domain, the rendered message, the console method and the trace value.
send(cl, cx) ==
    IF levels[cl.level].trace.present
    THEN Try(<<>>, formatGroup(levels[cl.level], cl.domain, cx),
             LAMBDA g :
               Return(Undef,
                 g.out
                 \o << Event("group", g.value, "send", cx),
                       Event(cl.consoleMethod, cl.message, "send", cx) >>
                 \o (IF Truthy(cl.trace)
                     THEN << Event("trace", <<cl.trace>>, "send", cx) >>
                     ELSE <<>>)
                 \o << Event("groupEnd", <<>>, "send", cx) >>))
    ELSE Return(Undef, << Event(cl.consoleMethod, cl.message, "send", cx) >>)

\* variant: the mode test inverted
deferred_inverted == options.synchronous # "false"

\* whether #handleLog runs send() through process.nextTick
deferred == options.synchronous = "false"

\* variant: the guard without its test of level.logToFile
fileGuard_anyLevel(level) == Truthy(options.outputDirectory)

\* the guard of the file step of #handleLog
fileGuard(level) == Truthy(level.logToFile) /\ Truthy(options.outputDirectory)

\* variant: #formatPayload popping the array #handleLog goes on to use
fileArgs_popped(level, args) == popTrace(level, args)

\* the payload #handleLog hands to #logToFile: its own args, which the pop
\* inside #formatPayload does not reach
fileArgs(level, args) == args

\* what send closes over
closure(l, domain, args, message, cx) ==
    [call |-> cx.call, level |-> l, domain |-> domain, message |-> message,
     consoleMethod |-> consoleMethodOf(levels[l]), trace |-> lastArg(args)]

\* the scheduling step of #handleLog: process.nextTick(() => send()) in
\* asynchronous mode, send() on the caller's stack otherwise
schedule(cl, cx) ==
    IF deferred
    THEN [fault |-> "none", out |-> <<>>, ticks |-> <<cl>>]
    ELSE Bind(send(cl, cx),
              LAMBDA s : [fault |-> s.fault, out |-> s.out, ticks |-> <<>>])

\* the file step of #handleLog
fileStep(level, domain, args, cx) ==
    IF ~fileGuard(level)
    THEN [fault |-> "none", out |-> <<>>, files |-> <<>>]
    ELSE Bind(logToFile(level, fileDomain(domain), fileArgs(level, args), cx),
              LAMBDA f : [fault |-> f.fault, out |-> f.out,
                          files |-> IF f.fault = "none" THEN f.value ELSE <<>>])

\* the statements of #handleLog that act on the outside, by name
dispatchStep == IF deferred THEN "nextTick" ELSE "send"

fileStepName(level) == IF fileGuard(level) THEN <<"logToFile">> ELSE <<>>

\* variant: #handleLog with the file step ahead of the console dispatch
handleLog_fileFirst(l, domain, args, cx) ==
    Bind(formatPayload(levels[l], domain, args, cx),
      LAMBDA m :
        IF m.fault # "none"
        THEN [fault |-> m.fault, out |-> m.out, ticks |-> <<>>, files |-> <<>>,
              steps |-> <<>>]
        ELSE Bind(fileStep(levels[l], domain, args, cx),
               LAMBDA f :
                 IF f.fault # "none"
                 THEN [fault |-> f.fault, out |-> m.out \o f.out,
                       ticks |-> <<>>, files |-> <<>>,
                       steps |-> fileStepName(levels[l])]
                 ELSE Bind(schedule(closure(l, domain, args, m.value, cx), cx),
                        LAMBDA s :
                          [fault |-> s.fault, out |-> m.out \o f.out \o s.out,
                           ticks |-> s.ticks, files |-> f.files,
                           steps |-> fileStepName(levels[l])
                                     \o <<dispatchStep>>])))

\* the body of #handleLog up to its first throw.
\*   out:   the console events emitted on the caller's stack
\*   ticks: the closures handed to process.nextTick
\*   files: the fs.appendFile requests made
\*   steps: the statements entered after rendering, in the order of the code
handleLog(l, domain, args, cx) ==
    Bind(formatPayload(levels[l], domain, args, cx),
      LAMBDA m :
        IF m.fault # "none"
        THEN [fault |-> m.fault, out |-> m.out, ticks |-> <<>>, files |-> <<>>,
              steps |-> <<>>]
        ELSE Bind(schedule(closure(l, domain, args, m.value, cx), cx),
               LAMBDA s :
                 IF s.fault # "none"
                 THEN [fault |-> s.fault, out |-> m.out \o s.out,
                       ticks |-> s.ticks, files |-> <<>>,
                       steps |-> <<dispatchStep>>]
                 ELSE Bind(fileStep(levels[l], domain, args, cx),
                        LAMBDA f :
                          [fault |-> f.fault, out |-> m.out \o s.out \o f.out,
                           ticks |-> s.ticks, files |-> f.files,
                           steps |-> <<dispatchStep>>
                                     \o fileStepName(levels[l])])))

\* variant: #handleLog as a plain function: a throw reaches its caller
asyncFunction_plain(fault) == [thrown |-> fault, rejected |-> "none"]

\* #handleLog is declared async: a throw in its body never reaches its caller,
\* it rejects the promise the call returns
asyncFunction(fault) == [thrown |-> "none", rejected |-> fault]

----------------------------------------------------------------------------
(* Entry points *)

\* a fault that leaves the logger
Escape(cx, how, fault) == [call |-> cx.call, how |-> how, fault |-> fault]

\* How an entry point ends: a throw that leaves a plain function reaches the
\* caller, a throw that leaves an async function rejects its promise, which
\* the caller of a logging method does not hold on to.
leave(isAsync, fault, out, cx) ==
    [thrown |-> IF isAsync THEN "none" ELSE fault,
     out |-> out,
     micro |-> <<>>,
     escaped |-> IF fault = "none" THEN <<>>
                 ELSE IF isAsync
                 THEN << Escape(cx, "unhandledRejection", fault) >>
                 ELSE << Escape(cx, "thrown", fault) >>]

\* The boundary around the call of #handleLog in a generated entry point and
\* in withDomain.  p is what the call of #handleLog gives its caller, isAsync
\* tells whether the surrounding function is itself an async function.
\*   part_001: try { this.#handleLog(..) } catch (err) { internalErrorLog }
\*             the promise #handleLog returns is dropped
\*   index.ts: this.#handleLog(..).catch(err => internalErrorLog)
callBoundary(isAsync, msg, p, cx) ==
    IF p.thrown # "none"
    THEN IF version = "part1"
         THEN Bind(internalErrorLog(msg, p.thrown, cx, 0),
                   LAMBDA r : leave(isAsync, r.fault, r.out, cx))
         ELSE leave(isAsync, p.thrown, <<>>, cx)
    ELSE IF p.rejected # "none"
    THEN IF version = "part1"
         THEN [thrown |-> "none", out |-> <<>>, micro |-> <<>>,
               escaped |-> << Escape(cx, "unhandledRejection", p.rejected) >>]
         ELSE [thrown |-> "none", out |-> <<>>,
               micro |-> << [call |-> cx.call, msg |-> msg, err |-> p.rejected] >>,
               escaped |-> <<>>]
    ELSE leave(isAsync, "none", <<>>, cx)

\* withDomain: this.#levels.find(obj => obj?.label === level), 0 when no
\* level has the label
findLevel(label) ==
    IF \E i \in DOMAIN levels : levels[i].label = label
    THEN CHOOSE i \in DOMAIN levels :
            /\ levels[i].label = label
            /\ \A j \in DOMAIN levels : levels[j].label = label => i <= j
    ELSE 0

\* what one call of an entry point did: the level it dispatched with (0: none),
\* the fault #handleLog raised, the fault thrown to the caller, the console
\* events emitted before the call returned, and what it left behind
outcome(l, h, b) ==
    [level |-> l, fault |-> h.fault, thrown |-> b.thrown,
     out |-> h.out \o b.out, ticks |-> h.ticks, files |-> h.files,
     steps |-> h.steps, micro |-> b.micro, escaped |-> b.escaped]

\* the entry point #initLevels generates for methods[name]
generatedMethod(name, args, cx) ==
    Bind(handleLog(methods[name].level, Undef, args, cx),
      LAMBDA h :
        Bind(callBoundary(methods[name].async,
                          <<"Error during log handling ",
                            levels[methods[name].level].label, "!">>,
                          asyncFunction(h.fault), cx),
          LAMBDA b : outcome(methods[name].level, h, b)))

\* withDomain
withDomain(label, domain, args, cx) ==
    IF findLevel(label) # 0
    THEN Bind(handleLog(findLevel(label), domain, args, cx),
           LAMBDA h :
             Bind(callBoundary(FALSE,
                               <<"Error during error handling ", label,
                                 " with domain!">>,
                               asyncFunction(h.fault), cx),
               LAMBDA b : outcome(findLevel(label), h, b)))
    ELSE Bind(internalErrorLog(<<"Invalid log level ", label, " provided!">>,
                               Undef, cx, 0),
           LAMBDA r :
             [level |-> 0, fault |-> "none", thrown |-> r.fault, out |-> r.out,
              ticks |-> <<>>, files |-> <<>>, steps |-> <<>>, micro |-> <<>>,
              escaped |-> IF r.fault = "none" THEN <<>>
                          ELSE << Escape(cx, "thrown", r.fault) >>])

----------------------------------------------------------------------------
(* The state machine *)

\* the state after `new Eudoros(config)` / `builder.init()`
Constructed(config) ==
    /\ host = [config |-> config, levels |-> config.levels,
               options |-> config.options, edits |-> <<>>]
    /\ options = ctorOptions(version, config)
    /\ levels = ctorLevels(version, config)
    /\ methods = ctorMethods(version, config)
    /\ calls = <<>>
    /\ console = <<>>
    /\ tickQueue = <<>>
    /\ microtasks = <<>>
    /\ appends = <<>>
    /\ escaped = <<>>

Init ==
    /\ version \in Versions
    /\ \E config \in Configs : Constructed(config)

\* variant: a queue that runs the newest callback first
nextTick_lifo(queue, ticks) == ticks \o queue

\* process.nextTick(callback): the callback joins the end of the queue
nextTick(queue, ticks) == queue \o ticks

\* the effect of one call of an entry point on the state
Issue(kind, name, domain, args, e) ==
    /\ calls' = Append(calls, [kind |-> kind, name |-> name, level |-> e.level,
                               domain |-> domain, args |-> args,
                               fault |-> e.fault, thrown |-> e.thrown,
                               steps |-> e.steps])
    /\ console' = console \o e.out
    /\ tickQueue' = nextTick(tickQueue, e.ticks)
    /\ appends' = appends \o e.files
    /\ microtasks' = microtasks \o e.micro
    /\ escaped' = escaped \o e.escaped
    /\ UNCHANGED <<host, version, options, levels, methods>>

\* the host calls a generated entry point: logger[name](...args)
Call(name, args) ==
    /\ Len(calls) < MaxCalls
    /\ \E e \in {generatedMethod(name, args, Context(Len(calls) + 1, "inline"))} :
          Issue("method", name, Undef, args, e)

\* the host calls logger.withDomain(label, domain, ...args)
WithDomain(label, domain, args) ==
    /\ Len(calls) < MaxCalls
    /\ \E e \in {withDomain(label, domain, args, Context(Len(calls) + 1, "inline"))} :
          Issue("withDomain", label, domain, args, e)

\* a callback of the event loop ran to its end or threw: its console events,
\* and the throw, which nothing catches
Ran(r, cx, how) ==
    /\ console' = console \o r.out
    /\ escaped' = IF r.fault = "none" THEN escaped
                  ELSE Append(escaped, Escape(cx, how, r.fault))

\* the event loop runs the oldest process.nextTick callback: () => { send() }
Tick ==
    /\ tickQueue # <<>>
    /\ \E cx \in {Context(Head(tickQueue).call, "tick")} :
       \E r \in {send(Head(tickQueue), cx)} :
          Ran(r, cx, "uncaughtException")
    /\ tickQueue' = Tail(tickQueue)
    /\ UNCHANGED <<host, version, options, levels, methods, calls, microtasks, appends>>

\* the event loop runs the oldest promise reaction: the .catch handler of
\* index.ts, err => this.#internalErrorLog(msg, err).  A throw in it rejects
\* the promise .catch returned.
Microtask ==
    /\ microtasks # <<>>
    /\ \E cx \in {Context(Head(microtasks).call, "microtask")} :
       \E r \in {internalErrorLog(Head(microtasks).msg, Head(microtasks).err, cx, 0)} :
          Ran(r, cx, "unhandledRejection")
    /\ microtasks' = Tail(microtasks)
    /\ UNCHANGED <<host, version, options, levels, methods, calls, tickQueue, appends>>

\* fs.appendFile fails request i: callback(err) reports the error.  (A request
\* that succeeds calls back with null, and the callback does nothing.)  An I/O
\* callback runs in a later phase of the event loop, which Node enters only
\* once the nextTick queue and the promise reactions are drained.
FsFailed(i) ==
    /\ appends[i].status = "requested"
    /\ tickQueue = <<>>
    /\ microtasks = <<>>
    /\ \E cx \in {Context(appends[i].call, "fs")} :
       \E r \in {internalErrorLog(<<"Cannot write log to file!">>, "EACCES", cx, 0)} :
          Ran(r, cx, "uncaughtException")
    /\ appends' = [appends EXCEPT ![i].status = "failed"]
    /\ UNCHANGED <<host, version, options, levels, methods, calls, tickQueue, microtasks>>

\* the host pushes a level onto the levels array it configured the logger
\* with (after EudorosBuilder.init(): builder.addLevel(level))
PushLevel ==
    /\ host.config.given
    /\ host.config.hasLevels
    /\ Len(host.edits) < MaxEdits
    /\ host' = [host EXCEPT !.levels = Append(@, LateLevel),
                            !.edits = Append(@, [op |-> "push", at |-> Len(calls)])]
    /\ levels' = IF levelsAliased(host.config) THEN Append(levels, LateLevel)
                 ELSE levels
    /\ UNCHANGED <<version, options, methods, calls, console, tickQueue,
                   microtasks, appends, escaped>>

\* the host assigns the opposite mode to the synchronous field of the options
\* object it configured the logger with
EditOptions ==
    /\ host.config.given
    /\ host.config.hasOptions
    /\ Len(host.edits) < MaxEdits
    /\ \E mode \in {IF options.synchronous = "false" THEN "true" ELSE "false"} :
          /\ host' = [host EXCEPT !.options.synchronous = mode,
                                  !.edits = Append(@, [op |-> "options",
                                                       at |-> Len(calls)])]
          /\ options' = IF optionsAliased(host.config)
                        THEN [options EXCEPT !.synchronous = mode]
                        ELSE options
    /\ UNCHANGED <<version, levels, methods, calls, console, tickQueue,
                   microtasks, appends, escaped>>

Next ==
    \/ \E name \in DOMAIN methods, args \in Payloads : Call(name, args)
    \/ \E label \in Labels, domain \in Domains, args \in Payloads :
          WithDomain(label, domain, args)
    \/ Tick
    \/ Microtask
    \/ \E i \in DOMAIN appends : FsFailed(i)

Spec == Init /\ [][Next]_vars

\* The same program on a host that keeps its event loop running: a callback
\* that waits in the process.nextTick queue, and a promise reaction that
\* waits in the microtask queue, is run in the end
LiveSpec == Spec /\ WF_vars(Tick) /\ WF_vars(Microtask)

\* The wide specification: one logger built in any of the ways of
\* WideConfigs, a host that issues few calls with the wide payloads and edits
\* the objects it passed to the constructor
WideInit ==
    /\ version \in Versions
    /\ \E config \in WideConfigs : Constructed(config)

WideNext ==
    \/ \E name \in DOMAIN methods, args \in WidePayloads :
          Len(calls) < MaxWide /\ Call(name, args)
    \/ \E label \in WideLabels, domain \in Domains, args \in Payloads :
          Len(calls) < MaxWide /\ WithDomain(label, domain, args)
    \/ Tick
    \/ Microtask
    \/ \E i \in DOMAIN appends : FsFailed(i)
    \/ PushLevel
    \/ EditOptions

WideSpec == WideInit /\ [][WideNext]_vars

----------------------------------------------------------------------------
(* Reading the histories *)

\* the console events of the dispatch (send) of call c
sendEvents(c) == SelectSeq(console, LAMBDA ev : ev.src = "send" /\ ev.call = c)

\* the diagnostic blocks the internal error reporter opened for call c
reportBlocks(c) ==
    SelectSeq(console, LAMBDA ev : ev.src = "report" /\ ev.op = "group" /\ ev.call = c)

\* the fs.appendFile requests of call c
appendsOf(c) == SelectSeq(appends, LAMBDA a : a.call = c)

\* the number of diagnostic blocks in a sequence of console events
blocksIn(out) == Len(SelectSeq(out, LAMBDA ev : ev.src = "report" /\ ev.op = "group"))

\* a call of an entry point that reached the dispatch engine
dispatched(c) == calls[c].level # 0

\* whether a console event of a dispatch is the body line (not the group
\* header, the trace or the group close)
isBody(ev) == ev.src = "send" /\ ev.op \notin {"group", "trace", "groupEnd"}

\* a sequence without its last element
Front(seq) == SubSeq(seq, 1, Len(seq) - 1)

\* whether text ends with tail
EndsWith(text, tail) ==
    /\ Len(tail) <= Len(text)
    /\ SubSeq(text, Len(text) - Len(tail) + 1, Len(text)) = tail

\* the body the level's renderer makes of exactly the values given
bodyFrom(level, values) ==
    payloadBody([level EXCEPT !.trace = NoTrace], values, Context(0, "inline")).value

----------------------------------------------------------------------------
(* Claims *)

\* C1 (as claimed): every fault raised inside a call's pipeline is caught and
\* handed to the internal error reporter: no fault leaves the logger as an
\* uncaught exception of a callback or as an unhandled promise rejection.
C1_NoFaultEscapes ==
    \A k \in DOMAIN escaped :
        escaped[k].how \notin {"uncaughtException", "unhandledRejection"}

\* C2: a call of a generated entry point returns to its caller without
\* throwing, whether formatToString throws, the date strategy is invalid or
\* the file write fails.
C2_EntryPointNeverThrows ==
    \A c \in DOMAIN calls :
        calls[c].kind = "method" => calls[c].thrown = "none"

\* C2 witness: a generated entry point was called on the level whose
\* formatToString throws, with an invalid date strategy; the pipeline raised
\* a fault and the call returned
C2_Witness ==
    \E c \in DOMAIN calls :
        /\ calls[c].kind = "method"
        /\ levels[calls[c].level].formatToString = "throws"
        /\ options.formatDate = "noSuchMethod"
        /\ calls[c].fault # "none"
        /\ calls[c].thrown = "none"

\* C3 (as claimed): for every date strategy the date formatter returns a
\* string; when the strategy fails it emits one internal error report and
\* returns the result of the default ISO strategy.
C3_FormatDateReturnsString ==
    \A at \in {"inline", "tick"} :
        \E r \in {formatDate("now", Context(0, at), 0)} :
            /\ r.fault = "none"
            /\ r.value \in {"ISO(now)", "fn(now)"}
            /\ blocksIn(r.out) > 0 => r.value = "ISO(now)"

\* C4 (as claimed): every invocation of the internal error reporter returns
\* after writing one diagnostic block, for every date strategy (absent,
\* invalid name, throwing function).
C4_ReporterWritesOneBlock ==
    \A at \in {"inline", "tick"} :
        \E r \in {internalErrorLog(<<"probe">>, Undef, Context(0, at), 0)} :
            /\ r.fault = "none"
            /\ blocksIn(r.out) = 1

\* C5: in deferred mode the console events of the dispatches appear in the
\* order the calls were issued: no event of an earlier call's dispatch comes
\* after an event of a later call's dispatch.
C5_DeferredFifo ==
    deferred =>
        \A i, j \in DOMAIN console :
            /\ i < j
            /\ console[i].src = "send"
            /\ console[j].src = "send"
            => console[i].call <= console[j].call

\* C5 witness: deferred mode, two calls issued before either dispatch ran, and
\* both dispatches have run
C5_Witness ==
    /\ deferred
    /\ Len(calls) >= 2
    /\ tickQueue = <<>>
    /\ \E i, j \in DOMAIN console :
          /\ i < j
          /\ console[i].src = "send" /\ console[i].call = 1
          /\ console[j].src = "send" /\ console[j].call = 2
          /\ Len(sendEvents(1)) > 1
    /\ \A k \in DOMAIN console : console[k].at # "inline"

C7_UnknownLabelOneReport ==
    \A c \in DOMAIN calls :
        calls[c].kind = "withDomain" /\ ~dispatched(c) =>
            /\ Len(reportBlocks(c)) = 1
            /\ sendEvents(c) = <<>>
            /\ appendsOf(c) = <<>>
            /\ calls[c].thrown = "none"

\* C8: a file append is requested for a call only if the level's logToFile is
\* truthy and outputDirectory is enabled; with outputDirectory disabled no
\* append is ever requested.
C8_FileOnlyWhenEnabled ==
    /\ \A k \in DOMAIN appends :
          /\ Truthy(levels[calls[appends[k].call].level].logToFile)
          /\ Truthy(options.outputDirectory)
    /\ ~Truthy(options.outputDirectory) => appends = <<>>

\* C8 witness: outputDirectory is disabled, a call on a level with logToFile
\* ran its whole pipeline, and no append was requested
C8_Witness ==
    /\ ~Truthy(options.outputDirectory)
    /\ appends = <<>>
    /\ \E c \in DOMAIN calls :
          /\ dispatched(c)
          /\ Truthy(levels[calls[c].level].logToFile)
          /\ calls[c].fault = "none"
          /\ sendEvents(c) # <<>>

\* C9: the file record of a call has level equal to the level's label and args
\* equal to the full original payload in order, trace element included; its
\* line carries the JSON encoding of each of these values.
C9_RecordKeepsPayload ==
    \A k \in DOMAIN appends :
        \E c \in {calls[appends[k].call]} :
            /\ appends[k].head.level = levels[c.level].label
            /\ appends[k].line.level = levels[c.level].label
            /\ appends[k].args = c.args
            /\ appends[k].line.args = [i \in DOMAIN c.args |-> jsonStringify(c.args[i])]

\* C9 witness: a call on the trace level with payload <<"msg", "err">> wrote a
\* record with both values while its console line holds "msg" and not the error
C9_Witness ==
    \E k \in DOMAIN appends :
        \E c \in {appends[k].call} :
            /\ levels[calls[c].level].trace.present
            /\ calls[c].args = <<"msg", "err">>
            /\ appends[k].args = <<"msg", "err">>
            /\ \E e \in DOMAIN console :
                  /\ console[e].src = "send"
                  /\ console[e].call = c
                  /\ console[e].op = "error"
                  /\ \E p \in DOMAIN console[e].text : console[e].text[p] = "msg"
                  /\ \A p \in DOMAIN console[e].text :
                        console[e].text[p] # toString("err")

\* C10 (as claimed): the record of a withDomain call with a non-empty domain
\* carries that domain; the record of a generated entry point has no domain key.
C10_RecordCarriesDomain ==
    \A k \in DOMAIN appends :
        \E c \in {calls[appends[k].call]} :
            /\ c.kind = "withDomain" /\ Truthy(c.domain) =>
                  /\ appends[k].head.domain = c.domain
                  /\ \E i \in DOMAIN appends[k].line.keys : appends[k].line.keys[i] = "domain"
            /\ c.kind = "method" =>
                  \A i \in DOMAIN appends[k].line.keys : appends[k].line.keys[i] # "domain"

\* C11 (as claimed): on a level with trace the body is rendered from the
\* payload without its last value when the payload has more than one value,
\* and from the whole payload otherwise; on a level without trace it is
\* rendered from the whole payload.
C11_BodyDropsLastOnTrace ==
    \A k \in DOMAIN console :
        isBody(console[k]) =>
            \E c \in {calls[console[k].call]} :
            \E level \in {levels[c.level]} :
                IF level.trace.present
                THEN console[k].text =
                        linePrefix(level)
                        \o bodyFrom(level, IF Len(c.args) > 1 THEN Front(c.args)
                                           ELSE c.args)
                ELSE EndsWith(console[k].text, bodyFrom(level, c.args))

\* C12: the dispatch of a call on a level with trace emits the group header,
\* the body through the resolved console method, the last value of the payload
\* on console.trace only when that value is truthy, and the group close, in
\* this order; on a level without trace it emits the body alone.
C12_DispatchOrder ==
    \A c \in DOMAIN calls :
        sendEvents(c) # <<>> =>
            \E ev \in {sendEvents(c)} :
            \E level \in {levels[calls[c].level]} :
            \E last \in {IF calls[c].args = <<>> THEN Undef
                         ELSE calls[c].args[Len(calls[c].args)]} :
                IF level.trace.present
                THEN /\ Len(ev) = IF Truthy(last) THEN 4 ELSE 3
                     /\ ev[1].op = "group"
                     /\ isBody(ev[2])
                     /\ ev[2].op = consoleMethodOf(level)
                     /\ Truthy(last) => ev[3].op = "trace" /\ ev[3].text = <<last>>
                     /\ ev[Len(ev)].op = "groupEnd"
                ELSE /\ Len(ev) = 1
                     /\ isBody(ev[1])
                     /\ ev[1].op = consoleMethodOf(level)

\* C12 witness: a call on a level with trace whose last value is null was
\* dispatched: header, body and close, and nothing on console.trace
C12_Witness ==
    \E c \in DOMAIN calls :
        /\ dispatched(c)
        /\ levels[calls[c].level].trace.present
        /\ calls[c].args = <<"msg", "null">>
        /\ Len(sendEvents(c)) = 3
        /\ isBody(sendEvents(c)[2])
        /\ \A k \in 1..3 : sendEvents(c)[k].op # "trace"

C14_RegistryClosed ==
    /\ DOMAIN methods = DOMAIN ctorMethods(version, host.config)
    /\ \A label \in Labels \cup WideLabels :
          findLevel(label) # 0 <=>
             \E i \in DOMAIN ctorLevels(version, host.config) :
                ctorLevels(version, host.config)[i].label = label

\* C15: the mode (deferred or not) is the one the constructor computed, for
\* the lifetime of the instance: every generated entry point was generated for
\* it, the dispatch engine tests the same value, every dispatch of every entry
\* point ran accordingly, and an edit of the caller's options object after
\* construction changes none of this.
C15_ModeFixedAtConstruction ==
    \E mode \in {ctorOptions(version, host.config).synchronous = "false"} :
        /\ deferred = mode
        /\ \A n \in DOMAIN methods : methods[n].async = mode
        /\ \A k \in DOMAIN console :
              console[k].src = "send" =>
                 /\ (console[k].at = "tick") = mode
                 /\ (console[k].at = "inline") = ~mode

\* C15 witness: the caller flipped synchronous in its options object before
\* the first call, and the call was dispatched
C15_Witness ==
    /\ \E e \in DOMAIN host.edits :
          host.edits[e].op = "options" /\ host.edits[e].at = 0
    /\ host.options.synchronous # host.config.options.synchronous
    /\ Len(calls) > 0
    /\ dispatched(1)
    /\ sendEvents(1) # <<>>

\* C16 (as claimed): a logger constructed from levels without options runs
\* with every built-in default option; when options are given, each field the
\* caller gives wins and each field it omits takes its default.
C16_DefaultsApplied ==
    host.config.given =>
        /\ ~host.config.hasOptions => options = default_options
        /\ host.config.hasOptions =>
              \A f \in OptionFields :
                 options[f] = IF host.config.options[f] # Undef
                              THEN host.config.options[f]
                              ELSE default_options[f]

\* C17 (as claimed): a logger constructed without a configuration object, or
\* from one without levels, has exactly one generated entry point, log, bound
\* to the built-in default level.
C17_DefaultLevelWithoutConfig ==
    ~host.config.given \/ ~host.config.hasLevels =>
        /\ Cardinality(DOMAIN methods) = 1
        /\ \A n \in DOMAIN methods :
              /\ n = "log"
              /\ levels[methods[n].level] = default_levels(version)[1]

\* C18 (as claimed): a level's formatToString is never called to produce
\* console output (no body line is its result), and it is called only for a
\* call that writes a file record (a report of its throwing implies a record).
C18_RendererOnlyForFiles ==
    /\ \A k \in DOMAIN console :
          isBody(console[k]) =>
             \A p \in DOMAIN console[k].text :
                console[k].text[p] # "formatToString("
    /\ \A k \in DOMAIN console :
          /\ console[k].src = "report"
          /\ console[k].op = "error"
          /\ \E p \in DOMAIN console[k].text :
                console[k].text[p] = "Error in provided formatToString() function on "
          => appendsOf(console[k].call) # <<>>

\* the plain form of a payload value: a number and a string unchanged, an
\* array its elements joined by a comma and a space, a plain object compact
\* JSON, an Error its message line
plainForm(v) ==
    CASE v = "list" -> "1, 2, 3"
      [] v = "obj"  -> "{\"a\":1}"
      [] v = "err"  -> "Error: test"
      [] OTHER      -> v

\* the plain form as the specification's example has it: an array joined by
\* commas alone
plainFormAsClaimed(v) == IF v = "list" THEN "1,2,3" ELSE plainForm(v)

\* with formatArgs off and no custom renderer, every body line ends with the
\* forms, under plain, of the rendered payload values in order, joined by " / "
PlainJoin(plain(_)) ==
    \A k \in DOMAIN console :
        /\ isBody(console[k])
        /\ ~Truthy(options.formatArgs)
        /\ ~Truthy(levels[calls[console[k].call].level].formatToString)
        => \E c \in {calls[console[k].call]} :
           \E kept \in {IF levels[c.level].trace.present /\ Len(c.args) > 1
                        THEN Front(c.args) ELSE c.args} :
              EndsWith(console[k].text,
                       Join([i \in DOMAIN kept |-> <<plain(kept[i])>>], " / "))

\* C19 (amended): with formatArgs false and no custom renderer, the body is
\* the plain form of each payload value, in payload order, joined by " / ",
\* where an array is its elements joined by ", " (comma and space): the
\* payload [42, [1,2,3], {a:1}] yields "42 / 1, 2, 3 / {\"a\":1}".
C19_PlainJoin == PlainJoin(plainForm)

\* C19 (as claimed): the same with an array comma-joined without spaces: the
\* payload [42, [1,2,3], {a:1}] yields "42 / 1,2,3 / {\"a\":1}".
C19_PlainJoinAsClaimed == PlainJoin(plainFormAsClaimed)

\* C19 witness: formatArgs is false and the payload [42, [1,2,3], {a:1}] was
\* rendered on a level without trace and without custom renderer
C19_Witness ==
    \E k \in DOMAIN console :
        /\ isBody(console[k])
        /\ options.formatArgs = "false"
        /\ calls[console[k].call].args = <<"42", "list", "obj">>
        /\ ~levels[calls[console[k].call].level].trace.present
        /\ ~Truthy(levels[calls[console[k].call].level].formatToString)
        /\ EndsWith(console[k].text,
                    <<"42", " / ", "1, 2, 3", " / ", "{\"a\":1}">>)

\* C20 (as claimed): a call on a level whose consoleMethodName is set to a
\* name that is no console method produces an internal error report about it
\* and still emits its body through a valid console method.
C20_InvalidSinkReported ==
    \A c \in DOMAIN calls :
        /\ dispatched(c)
        /\ Truthy(levels[calls[c].level].consoleMethodName)
        /\ ~isValidMethod(levels[calls[c].level].consoleMethodName)
        /\ sendEvents(c) # <<>>
        => /\ \E k \in DOMAIN console :
                 /\ isBody(console[k])
                 /\ console[k].call = c
                 /\ isValidMethod(console[k].op)
           /\ \E k \in DOMAIN console :
                 /\ console[k].src = "report"
                 /\ console[k].op = "error"
                 /\ console[k].call = c
                 /\ \A p \in DOMAIN console[k].text :
                       console[k].text[p] #
                          "Error in provided formatToString() function on "

\* the console events of all dispatches, in console order
allSends(out) == SelectSeq(out, LAMBDA ev : ev.src = "send")

\* C21 (as claimed): when the file system reports an error for an append, the
\* error goes to the internal error reporter, which writes one diagnostic
\* block; nothing is thrown, the console emissions of the dispatches stay as
\* they were and no second append is requested.
C21_AppendFailureContained ==
    [][\A i \in DOMAIN appends :
          (appends[i].status = "requested" /\ appends'[i].status = "failed") =>
             /\ blocksIn(console') = blocksIn(console) + 1
             /\ escaped' = escaped
             /\ calls' = calls
             /\ allSends(console') = allSends(console)
             /\ Len(appends') = Len(appends)
             /\ tickQueue' = tickQueue]_vars

\* whether the dispatch of call c is still waiting in the nextTick queue
pending(c) == \E i \in DOMAIN tickQueue : tickQueue[i].call = c

\* C22: in both modes a call enters the file step only after its console
\* dispatch: when a file record of the call was built or requested, the
\* dispatch was already executed (synchronous mode: its console events are
\* there) or already scheduled (asynchronous mode: it waits in the queue, or
\* has run since).
C22_FileAfterDispatch ==
    \A c \in DOMAIN calls :
        /\ \A i \in DOMAIN calls[c].steps :
              calls[c].steps[i] = "logToFile" =>
                 /\ i = 2
                 /\ calls[c].steps[1] = dispatchStep
        /\ appendsOf(c) # <<>> =>
              /\ calls[c].steps = <<dispatchStep, "logToFile">>
              /\ IF deferred
                 THEN \/ pending(c)
                      \/ sendEvents(c) # <<>>
                      \/ \E i \in DOMAIN escaped : escaped[i].call = c
                 ELSE sendEvents(c) # <<>>

\* C22 witness: in asynchronous mode a file record was requested while the
\* dispatch of the same call is scheduled and has not run yet
C22_Witness ==
    \E c \in DOMAIN calls :
        /\ deferred
        /\ appendsOf(c) # <<>>
        /\ pending(c)
        /\ sendEvents(c) = <<>>
        /\ calls[c].steps = <<"nextTick", "logToFile">>

\* whether a rendered text holds a formatted date
hasTimestamp(text) == \E i \in DOMAIN text : text[i] \in {"ISO(now)", "fn(now)"}

\* whether a rendered text holds the tag of a domain
hasDomainTag(text, domain) ==
    \E i \in DOMAIN text :
        /\ i + 2 <= Len(text)
        /\ text[i] = "[" /\ text[i + 1] = domain /\ text[i + 2] = "]"

\* the timestamp visibility the documentation gives a level: its own
\* consoleTimestamps when set, the global option otherwise
effectiveTimestamps(level) ==
    IF level.consoleTimestamps # Undef
    THEN level.consoleTimestamps = "true"
    ELSE Truthy(options.consoleTimestamps)

\* C23 (as claimed): the effective timestamp visibility of a call (the
\* level's consoleTimestamps when set, else the global option) decides
\* whether a timestamp is in the console line of a level without trace and in
\* the group header of a trace level; the body line of a trace level holds
\* neither a timestamp nor the domain tag.
C23_TimestampVisibility ==
    \A c \in DOMAIN calls :
        dispatched(c) =>
          \A i \in DOMAIN sendEvents(c) :
            \E ev \in {sendEvents(c)[i]}, level \in {levels[calls[c].level]} :
              /\ (isBody(ev) /\ ~level.trace.present) =>
                    (hasTimestamp(ev.text) <=> effectiveTimestamps(level))
              /\ ev.op = "group" =>
                    (hasTimestamp(ev.text) <=> effectiveTimestamps(level))
              /\ (isBody(ev) /\ level.trace.present) =>
                    /\ ~hasTimestamp(ev.text)
                    /\ ~hasDomainTag(ev.text, calls[c].domain)

\* whether a rendered text is free of placeholders and stray separators
wellFormed(text) ==
    /\ \A i \in DOMAIN text : text[i] # Undef
    /\ text # <<>> => (text[1] # " " /\ text[Len(text)] # " ")
    /\ \A i \in DOMAIN text : i < Len(text) => ~(text[i] = " " /\ text[i + 1] = " ")

\* C24 (as claimed): the group header of a trace level is made of the parts
\* that are present among group prefix, timestamp, domain tag and group label,
\* joined by single spaces: it starts with the prefix and ends with the label
\* when they are set, holds the domain tag when a domain was given, and for
\* every combination of absent parts holds no placeholder text, no doubled
\* space and no leading or trailing separator.
C24_GroupHeader ==
    \A c \in DOMAIN calls :
        dispatched(c) =>
          \A i \in DOMAIN sendEvents(c) :
            \E ev \in {sendEvents(c)[i]}, trace \in {levels[calls[c].level].trace} :
              ev.op = "group" =>
                 /\ wellFormed(ev.text)
                 /\ Truthy(trace.groupPrefix) => ev.text[1] = trace.groupPrefix
                 /\ Truthy(trace.groupLabel) =>
                       ev.text[Len(ev.text)] = trace.groupLabel
                 /\ Truthy(calls[c].domain) <=> hasDomainTag(ev.text, calls[c].domain)

\* the reports of a failed custom renderer written for call c
rendererReports(c) ==
    SelectSeq(console,
              LAMBDA ev : /\ ev.src = "report" /\ ev.call = c /\ ev.op = "error"
                          /\ \E i \in DOMAIN ev.text :
                                ev.text[i] = "Error in provided formatToString() function on ")

\* whether call c got as far as calling the custom renderer of its level
rendererCalled(c) ==
    /\ dispatched(c)
    /\ levels[calls[c].level].formatToString = "throws"
    /\ timestampPart(levelFormat(levels[calls[c].level]),
                     withTimestamp(levels[calls[c].level]),
                     Context(c, "inline")).fault = "none"

\* the payload as Array.prototype.toString leaves it
unformatted(args) == Join([i \in DOMAIN args |-> Piece(joinString(args[i]))], ",")

\* C25 (as claimed): when the custom renderer of a level throws, the failure
\* is reported once, the call goes on with the unformatted payload as its
\* body and emits it (at once, or from the queue in asynchronous mode), and
\* it still requests its file record when the level logs to a file.
C25_RendererFailureFallsBack ==
    \A c \in DOMAIN calls :
        rendererCalled(c) =>
            /\ Len(rendererReports(c)) = 1
            /\ calls[c].fault = "none"
            /\ \/ pending(c)
               \/ \E i \in DOMAIN sendEvents(c) :
                     /\ isBody(sendEvents(c)[i])
                     /\ EndsWith(sendEvents(c)[i].text, unformatted(calls[c].args))
            /\ fileGuard(levels[calls[c].level]) => appendsOf(c) # <<>>

\* the reports of an unknown label written for call c
invalidLevelReports(c) ==
    SelectSeq(console,
              LAMBDA ev : /\ ev.src = "report" /\ ev.call = c /\ ev.op = "error"
                          /\ \E i \in DOMAIN ev.text : ev.text[i] = "Invalid log level ")

\* whether some registered level has exactly this label
registered(label) == \E i \in DOMAIN levels : levels[i].label = label

\* C26 (as claimed): withDomain resolves its level by the exact label, while
\* the generated entry point is named by the lower-cased label.  With a level
\* labelled "Audit" registered, the entry point is audit (there is no Audit),
\* withDomain("Audit", ..) dispatches with that level, and
\* withDomain("audit", ..) reports an invalid level and dispatches nothing.
C26_ExactLabelLookup ==
    registered("Audit") =>
        /\ "audit" \in DOMAIN methods
        /\ "Audit" \notin DOMAIN methods
        /\ levels[methods["audit"].level].label = "Audit"
        /\ \A c \in DOMAIN calls :
              calls[c].kind = "withDomain" =>
                /\ calls[c].name = "Audit" =>
                      /\ dispatched(c)
                      /\ levels[calls[c].level].label = "Audit"
                      /\ invalidLevelReports(c) = <<>>
                /\ calls[c].name = "audit" =>
                      /\ ~dispatched(c)
                      /\ Len(invalidLevelReports(c)) = 1
                      /\ sendEvents(c) = <<>>
                      /\ ~pending(c)
                      /\ appendsOf(c) = <<>>

\* the body lines call c emitted through its sink
bodyEvents(c) == SelectSeq(sendEvents(c), isBody)

\* C27 (as claimed): in either mode every issued call that resolves a
\* registered level ends with exactly one emission of its body: never two,
\* and, on a host that drains its queue, in the end one.
C27_EveryCallEmitsOnce ==
    /\ [](\A c \in DOMAIN calls : Len(bodyEvents(c)) <= 1)
    /\ \A c \in 1..MaxCalls :
          (c \in DOMAIN calls /\ dispatched(c)) ~> (Len(bodyEvents(c)) = 1)

\* the console.trace events of the dispatch of call c
traceEvents(c) == SelectSeq(sendEvents(c), LAMBDA ev : ev.op = "trace")

namedLevels(name) == {i \in DOMAIN levels : methodNameOf(levels[i]) = name}

labelledLevels(label) == {i \in DOMAIN levels : levels[i].label = label}

countOp(op) == Len(SelectSeq(console, LAMBDA ev : ev.op = op))

\* C30: the console events of one call on a trace level are contiguous: from
\* the group the dispatch opens to the groupEnd that closes it there are only
\* events of that dispatch, in deferred mode too; and once a dispatch (or a
\* report) is through, as many groups were closed as were opened.
C30_GroupContiguous ==
    /\ \A i \in DOMAIN console :
          (console[i].src = "send" /\ console[i].op = "group") =>
             \E j \in DOMAIN console :
                /\ i < j
                /\ console[j].op = "groupEnd"
                /\ \A k \in i..j :
                      /\ console[k].src = "send"
                      /\ console[k].call = console[i].call
                      /\ (i < k /\ k < j) => console[k].op \notin {"group", "groupEnd"}
    /\ countOp("group") = countOp("groupEnd")

\* C30 witness: in deferred mode two calls on a trace level were dispatched
\* from the queue, the group of the first before the group of the second
C30_Witness ==
    /\ deferred
    /\ \E i, j \in DOMAIN console :
          /\ i < j
          /\ console[i].src = "send" /\ console[i].op = "group"
          /\ console[j].src = "send" /\ console[j].op = "group"
          /\ console[i].at = "tick" /\ console[j].at = "tick"
          /\ console[i].call # console[j].call

============================================================================
